---------------------------- MODULE Spec2Model ----------------------------
(***************************************************************************)
(* Document indexing pipeline of app/services/index_service.py:            *)
(* the chunker (_split_text_into_chunks), the embedding model selector,    *)
(* the embedding generator, index_document, get_unindexed_documents and    *)
(* reindex_all_unindexed, over the documents / document_chunks tables      *)
(* reached through one SQLAlchemy AsyncSession per request.                *)
(***************************************************************************)
EXTENDS Integers, Sequences, FiniteSets, TLC

(***************************************************************************)
(* Program constants (index_service.py:21-26).                             *)
(***************************************************************************)
MAX_CHUNK_CHARS == 2000
CHUNK_OVERLAP == 200
LARGE_DOCUMENT_THRESHOLD == 150000

(***************************************************************************)
(* Bounds of the model.                                                    *)
(***************************************************************************)
\* longest input text the chunker specification enumerates
MaxTextLen == 5
\* largest max_chars parameter the chunker specification enumerates
MaxMaxChars == 3
\* number of index_document invocations one behaviour may start
MaxRuns == 4
\* number of index_document invocations of a behaviour of SpecConc
MaxConcRuns == 2
\* the selector specification enumerates the lengths 0..SelectorWindow and
\* those within SelectorWindow of LARGE_DOCUMENT_THRESHOLD
SelectorWindow == 60

(***************************************************************************)
(* Text: a Python str is a sequence of one-character strings.  Offsets are *)
(* Python's (0-based); text[i] of Python is text[i + 1] here.              *)
(***************************************************************************)
Alphabet == {"a", " ", "\n", "."}
\* the characters of Alphabet that str.strip() removes
Whitespace == {" ", "\n"}

Min2(a, b) == IF a <= b THEN a ELSE b
Max2(a, b) == IF a >= b THEN a ELSE b

\* text[start:end] of Python, for 0 <= start
Slice(t, s, e) == SubSeq(t, s + 1, Min2(e, Len(t)))

\* str.strip(): drop the leading and the trailing whitespace
Strip(t) ==
    IF \A i \in 1..Len(t) : t[i] \in Whitespace
    THEN <<>>
    ELSE LET first == CHOOSE i \in 1..Len(t) :
                          /\ t[i] \notin Whitespace
                          /\ \A j \in 1..(i - 1) : t[j] \in Whitespace
             back  == CHOOSE k \in 0..(Len(t) - 1) :
                          /\ t[Len(t) - k] \notin Whitespace
                          /\ \A j \in 0..(k - 1) : t[Len(t) - j] \in Whitespace
         IN  SubSeq(t, first, Len(t) - back)

\* the delimiters of line 58, in the order the loop tries them
Delimiters == << <<"\n", "\n">>, <<"\n">>, <<".", " ">>, <<" ">> >>

\* text[i : i + len(delim)] == delim
MatchAt(t, delim, i) ==
    /\ i + Len(delim) <= Len(t)
    /\ \A k \in 1..Len(delim) : t[i + k] = delim[k]

\* str.find in the place of str.rfind: the lowest offset of delim
FindFirst(t, delim, s, e) ==
    LET hi == Min2(e, Len(t)) - Len(delim)
    IN  IF \A i \in s..hi : ~MatchAt(t, delim, i)
        THEN -1
        ELSE CHOOSE i \in s..hi :
                 /\ MatchAt(t, delim, i)
                 /\ \A j \in s..(i - 1) : ~MatchAt(t, delim, j)

\* str.rfind(delim, start, end): the highest offset i with start <= i,
\* i + len(delim) <= end and text[i : i + len(delim)] == delim, else -1
RFind(t, delim, s, e) ==
    LET hi == Min2(e, Len(t)) - Len(delim)
    IN  IF \A i \in s..hi : ~MatchAt(t, delim, i)
        THEN -1
        ELSE hi - (CHOOSE k \in 0..(hi - s) :
                       /\ MatchAt(t, delim, hi - k)
                       /\ \A j \in 0..(k - 1) : ~MatchAt(t, delim, hi - j))

\* lines 58-62: the end chosen by the first delimiter, from the k-th on,
\* that occurs in text[start:end]; end itself when none does
RECURSIVE DelimiterEnd(_, _, _, _)
DelimiterEnd(t, s, e, k) ==
    IF k > Len(Delimiters)
    THEN e
    ELSE LET last_delim == RFind(t, Delimiters[k], s, e)
         IN  IF last_delim # -1
             THEN last_delim + Len(Delimiters[k])
             ELSE DelimiterEnd(t, s, e, k + 1)

\* a search from the beginning of the text, not from start
SpanEndFromZero(t, s, maxc) ==
    LET e == s + maxc
    IN  IF e < Len(t) THEN DelimiterEnd(t, 0, e, 1) ELSE e

\* a search window that reaches one character past the provisional end
SpanEndWideWindow(t, s, maxc) ==
    LET e == s + maxc
    IN  IF e < Len(t) THEN DelimiterEnd(t, s, e + 1, 1) ELSE e

\* lines 55-62: the end of the span that starts at start
SpanEnd(t, s, maxc) ==
    LET e == s + maxc
    IN  IF e < Len(t) THEN DelimiterEnd(t, s, e, 1) ELSE e

\* an emission that appends the span as cut, untrimmed
EmitUntrimmed(cs, t, s, e) ==
    IF Strip(Slice(t, s, e)) # <<>> THEN Append(cs, Slice(t, s, e)) ELSE cs

\* lines 64-66: the chunk list after the span [start, end) was cut
Emit(cs, t, s, e) ==
    LET chunk == Strip(Slice(t, s, e))
    IN  IF chunk # <<>> THEN Append(cs, chunk) ELSE cs

\* an advance that leaves one character between two spans
NextStartSkips(s, e, ov) == Max2(s + 1, e + 1 - ov)

\* an advance without the start + 1 floor
NextStartNoFloor(s, e, ov) == e - ov

\* an advance to the end of the span, without overlap
NextStartNoOverlap(s, e, ov) == Max2(s + 1, e)

\* an advance that steps back by twice the overlap
NextStartDoubleOverlap(s, e, ov) == Max2(s + 1, e - 2 * ov)

\* an advance that adds the overlap
NextStartPlusOverlap(s, e, ov) == Max2(s + 1, e + ov)

\* line 68
NextStart(s, e, ov) == Max2(s + 1, e - ov)

\* lines 54-73: the while loop, from start with the chunks cut so far; the
\* locals <<start, chunks>> are the argument of the iteration
SplitLoop(t, maxc, ov, s, cs) ==
    LET iterate[locals \in Nat \X Seq(Seq(Alphabet))] ==
            LET st == locals[1]
            IN  IF ~(st < Len(t))
                THEN locals[2]
                ELSE LET e  == SpanEnd(t, st, maxc)
                         ns == NextStart(st, e, ov)
                     IN  iterate[<<ns, Emit(locals[2], t, st, e)>>]
    IN  iterate[<<s, cs>>]

\* lines 47-73: _split_text_into_chunks(text, max_chars, overlap)
_split_text_into_chunks(t, maxc, ov) ==
    IF t = <<>> \/ Len(t) <= maxc
    THEN IF t # <<>> THEN <<t>> ELSE <<>>
    ELSE SplitLoop(t, maxc, ov, 0, <<>>)


(***************************************************************************)
(* State.                                                                  *)
(*   One call of _split_text_into_chunks, stepped through its loop:        *)
(*     text, max_chars, overlap   the arguments                            *)
(*     start, chunks              the locals of lines 51-52                *)
(*     spans                      the untrimmed spans <<start, end>> cut   *)
(*     cpc                        "idle", "call", "loop" or "done"         *)
(*   Storage:                                                              *)
(*     documents        the documents table, id -> row                     *)
(*     document_chunks  the committed rows of the document_chunks table    *)
(*     embed_fails      the chunks <<document, position>> whose embedding  *)
(*                      call raises (besides the blank ones, line 80)      *)
(*     runs             index_document invocations started so far          *)
(*   Per request s (each request has its own AsyncSession, database.py:35):*)
(*     pc[s]       position in the handler                                 *)
(*     frame[s]    the locals of the index_document invocation             *)
(*     session[s]  the AsyncSession: flushed but uncommitted deletes and   *)
(*                 inserts, the failed-flush flag, the Document objects it *)
(*                 holds and which of them are expired                     *)
(*     batch[s]    the locals of reindex_all_unindexed                     *)
(*     outcome[s]  what the request's service call gave its caller         *)
(*     hist[s]     history of the invocation (what it did so far)          *)
(*     last_count, prev_count   per document, the rows stored when the     *)
(*                 last and the last but one returned run ended            *)
(*   One call of _get_embedding_model:                                     *)
(*     sel_length                 the argument text_length                 *)
(*     sel_model                  the model returned, "" before the call   *)
(***************************************************************************)
VARIABLES text, max_chars, overlap, start, chunks, spans, cpc,
          documents, document_chunks, embed_fails, runs,
          pc, frame, session, batch, outcome, hist, last_count, prev_count,
          sel_length, sel_model

chunkerVars == <<text, max_chars, overlap, start, chunks, spans, cpc>>
storeVars   == <<documents, document_chunks, embed_fails, runs>>
indexVars   == <<storeVars, pc, frame, session, batch, outcome, hist,
                 last_count, prev_count>>
selectorVars == <<sel_length, sel_model>>
vars        == <<chunkerVars, indexVars, selectorVars>>

(***************************************************************************)
(* The chunker, one loop iteration per step.                               *)
(***************************************************************************)
RECURSIVE TextsOfLen(_)
TextsOfLen(n) ==
    IF n = 0 THEN {<<>>}
    ELSE {Append(t, c) : t \in TextsOfLen(n - 1), c \in Alphabet}

Texts == UNION {TextsOfLen(n) : n \in 0..MaxTextLen}

ChunkerIdle ==
    /\ text = <<>> /\ max_chars = 1 /\ overlap = 0
    /\ start = 0 /\ chunks = <<>> /\ spans = <<>> /\ cpc = "idle"

SelectorIdle == sel_length = 0 /\ sel_model = ""

\* lines 48-52: the short path returns, the long path enters the loop
SplitEntry ==
    /\ cpc = "call"
    /\ IF text = <<>> \/ Len(text) <= max_chars
       THEN /\ chunks' = (IF text # <<>> THEN <<text>> ELSE <<>>)
            /\ cpc' = "done"
       ELSE /\ chunks' = <<>>
            /\ cpc' = "loop"
    /\ start' = 0
    /\ UNCHANGED <<text, max_chars, overlap, spans, indexVars, selectorVars>>

\* lines 54-73: one iteration of the while loop; the loop is left when
\* start >= len(text) (line 70, and the loop condition of line 54)
SplitIterate ==
    /\ cpc = "loop"
    /\ start < Len(text)
    /\ LET end == SpanEnd(text, start, max_chars)
       IN  /\ chunks' = Emit(chunks, text, start, end)
           /\ spans' = Append(spans, <<start, end>>)
           /\ start' = NextStart(start, end, overlap)
           /\ cpc' = IF NextStart(start, end, overlap) >= Len(text)
                     THEN "done" ELSE "loop"
    /\ UNCHANGED <<text, max_chars, overlap, indexVars, selectorVars>>


(***************************************************************************)
(* Storage and the values the service passes around.                       *)
(***************************************************************************)
Sessions == {1, 2}

\* full_text IS NULL
None == <<"None">>

Rep(c, n) == [j \in 1..n |-> c]

\* Strings are immutable: the state holds the name of a text, and this table
\* its characters.
\*   long:       longer than MAX_CHUNK_CHARS, no delimiter (two chunks)
\*   blank_long: longer than MAX_CHUNK_CHARS, blanks only
\*   short:      a short text
\*   blank:      a short text of one blank
\*   empty:      the empty text         null: no text (NULL)
\*   large:      longer than LARGE_DOCUMENT_THRESHOLD: a paragraph of 2500
\*               characters, then blanks up to a last character
TextNames == {"long", "blank_long", "short", "blank", "empty", "null",
              "large"}

LargeText ==
    Rep("a", MAX_CHUNK_CHARS + 500)
        \o Rep(" ", LARGE_DOCUMENT_THRESHOLD - MAX_CHUNK_CHARS - 500)
        \o <<"a">>

Chars ==
    [long       |-> Rep("a", MAX_CHUNK_CHARS + 1),
     blank_long |-> Rep(" ", MAX_CHUNK_CHARS + 1),
     short      |-> <<"a", " ", "a">>,
     blank      |-> <<" ">>,
     empty      |-> <<>>,
     large      |-> LargeText,
     null       |-> None]

\* line 154 for each text: _split_text_into_chunks(document.full_text)
ChunkerOutput ==
    [long       |-> _split_text_into_chunks(Chars.long, MAX_CHUNK_CHARS,
                                            CHUNK_OVERLAP),
     blank_long |-> _split_text_into_chunks(Chars.blank_long, MAX_CHUNK_CHARS,
                                            CHUNK_OVERLAP),
     short      |-> _split_text_into_chunks(Chars.short, MAX_CHUNK_CHARS,
                                            CHUNK_OVERLAP),
     blank      |-> _split_text_into_chunks(Chars.blank, MAX_CHUNK_CHARS,
                                            CHUNK_OVERLAP),
     empty      |-> _split_text_into_chunks(Chars.empty, MAX_CHUNK_CHARS,
                                            CHUNK_OVERLAP),
     large      |-> _split_text_into_chunks(Chars.large, MAX_CHUNK_CHARS,
                                            CHUNK_OVERLAP)]

\* a chunk string is named by its text and its position in the chunk list
ChunkRefs(n) == [p \in 1..Len(ChunkerOutput[n]) |-> [text |-> n, pos |-> p]]
StrOf(ref) == ChunkerOutput[ref.text][ref.pos]

\* The documents table.  Document ids are UUIDs, here 1..6; id 0 names no row.
Documents ==
    [d \in 1..6 |->
        [filename  |-> d,
         full_text |-> CASE d = 1 -> "long"
                         [] d = 2 -> "blank_long"
                         [] d = 3 -> "short"
                         [] d = 4 -> "blank"
                         [] d = 5 -> "empty"
                         [] OTHER -> "null"]]

\* the documents table at the start of a behaviour: all six documents, or
\* only those whose text gives a chunk or is missing (1, 3, 5, 6)
DocumentTables ==
    {Documents, [d \in {1, 3, 5, 6} |-> Documents[d]]}

\* the ids a request may name
RequestIds == 0..6

\* a documents table with a short document (3) and one longer than
\* LARGE_DOCUMENT_THRESHOLD (7)
LargeDocumentTable ==
    [d \in {3, 7} |->
        IF d = 3 THEN Documents[3]
        ELSE [filename |-> 7, full_text |-> "large"]]

\* the ids of all document rows of the model
DocumentIds == DOMAIN Documents \cup DOMAIN LargeDocumentTable

\* the chunks whose embedding call may be made to fail
FallibleChunks == {<<1, 1>>, <<1, 2>>, <<3, 1>>}

\* a selector that gives the large model from the threshold on
get_embedding_model_below(text_length) ==
    IF text_length < LARGE_DOCUMENT_THRESHOLD
    THEN "text-embedding-3-small"
    ELSE "text-embedding-3-large"

\* lines 31-44
_get_embedding_model(text_length) ==
    IF text_length <= LARGE_DOCUMENT_THRESHOLD
    THEN "text-embedding-3-small"
    ELSE "text-embedding-3-large"

\* line 103
Dimensions(model) == IF model = "text-embedding-3-large" THEN 3072 ELSE 1536

\* a generator that selects the model by the length of the chunk
generate_embedding_by_chunk(chunk_text, doc_length, provider_fails) ==
    LET clean_text == Strip(chunk_text)
    IN  IF clean_text = <<>> \/ provider_fails
        THEN 0
        ELSE Dimensions(_get_embedding_model(Len(clean_text)))

\* lines 76-123: _generate_embedding(text, document_length); the vector is
\* modelled by its dimension, and 0 stands for the raised exception
_generate_embedding(chunk_text, doc_length, provider_fails) ==
    LET clean_text == Strip(chunk_text)
    IN  IF clean_text = <<>> \/ provider_fails
        THEN 0
        ELSE Dimensions(_get_embedding_model(
                 IF doc_length # 0 THEN doc_length ELSE Len(clean_text)))

NoRet ==
    [kind |-> "none", document_id |-> 0, chunks_indexed |-> 0,
     total_chunks |-> 0, embedding_model |-> "", document_size_chars |-> 0,
     error |-> ""]

IdleFrame ==
    [caller |-> "", document_id |-> 0, run |-> 0, document_length |-> 0,
     selected_model |-> "", existing_chunks_list |-> {}, chunks |-> <<>>,
     pos |-> 0, embedding_vector |-> 0, chunks_created |-> 0, exc |-> "",
     ret |-> NoRet]

\* AsyncSessionLocal() of database.py:25-37
FreshSession ==
    [tx_deleted |-> {}, tx_inserted |-> {}, needs_rollback |-> FALSE,
     identity_map |-> {}, expired |-> {}]

IdleBatch == [unindexed_docs |-> <<>>, doc_pos |-> 0, results |-> <<>>]

NoOutcome == [op |-> "", kind |-> "none", result |-> NoRet, results |-> <<>>,
              exc |-> "", status |-> 0]

\* a selection without the document_id condition
AllChunks(rows, d) == rows

\* the rows of a document among rows
ChunksOf(rows, d) == {r \in rows : r.document_id = d}

Ids(rows) == {r.id : r \in rows}

\* what the statements of session s see: the committed rows, without the
\* rows it deleted, with the rows it inserted
Visible(s) ==
    {r \in document_chunks : r.id \notin session[s].tx_deleted}
        \cup session[s].tx_inserted

NewHist(d) ==
    [before |-> Ids(ChunksOf(document_chunks, d)), embed_calls |-> 0,
     embed_failed |-> {}, db_fault |-> FALSE, committed |-> FALSE,
     deleted |-> 0, inserted |-> 0]

NewFrame(c, d, r) ==
    [IdleFrame EXCEPT !.caller = c, !.document_id = d, !.run = r]

\* a finder with IN in the place of NOT IN
get_documents_with_chunks(rows) ==
    {d \in DOMAIN documents :
        /\ Chars[documents[d].full_text] # None
        /\ Chars[documents[d].full_text] # <<>>
        /\ d \in {r.document_id : r \in rows}}

\* a finder without the NOT IN clause
get_documents_with_text(rows) ==
    {d \in DOMAIN documents :
        /\ Chars[documents[d].full_text] # None
        /\ Chars[documents[d].full_text] # <<>>}

\* a finder without the full_text != "" clause
get_documents_without_chunks(rows) ==
    {d \in DOMAIN documents :
        /\ Chars[documents[d].full_text] # None
        /\ d \notin {r.document_id : r \in rows}}

\* lines 217-226: the documents with a text that no chunk row references
get_unindexed_documents(rows) ==
    {d \in DOMAIN documents :
        /\ Chars[documents[d].full_text] # None
        /\ Chars[documents[d].full_text] # <<>>
        /\ d \notin {r.document_id : r \in rows}}

RECURSIVE SortedSeq(_)
SortedSeq(S) ==
    IF S = {} THEN <<>>
    ELSE LET m == CHOOSE x \in S : \A y \in S : x <= y
         IN  <<m>> \o SortedSeq(S \ {m})

(***************************************************************************)
(* index_document (lines 126-212), one step per awaited call.  Every       *)
(* awaited database call either completes or raises (storage unavailable). *)
(***************************************************************************)
\* POST /index/{document_id} (routes/upload.py:412-424) with a new session
StartIndex(s, d) ==
    /\ pc[s] \in {"idle", "done"}
    /\ runs < MaxRuns
    /\ runs' = runs + 1
    /\ pc' = [pc EXCEPT ![s] = "load"]
    /\ frame' = [frame EXCEPT ![s] = NewFrame("route", d, runs + 1)]
    /\ session' = [session EXCEPT ![s] = FreshSession]
    /\ batch' = [batch EXCEPT ![s] = IdleBatch]
    /\ outcome' = [outcome EXCEPT ![s] = [NoOutcome EXCEPT !.op = "index"]]
    /\ hist' = [hist EXCEPT ![s] = NewHist(d)]
    /\ UNCHANGED <<documents, document_chunks, embed_fails, last_count,
                   prev_count, chunkerVars, selectorVars>>

\* an exception reaches the handler of line 209
Raised(s, e, fault) ==
    /\ pc' = [pc EXCEPT ![s] = "rollback"]
    /\ frame' = [frame EXCEPT ![s].exc = e]
    /\ hist' = [hist EXCEPT ![s].db_fault = @ \/ fault]

\* a load that rejects only the NULL text, not the empty one
IndexLoadNullOnly(s) ==
    /\ pc[s] = "load"
    /\ LET d == frame[s].document_id
       IN  \/ /\ Raised(s, "OperationalError", TRUE)
              /\ UNCHANGED session
           \/ /\ d \notin DOMAIN documents
              /\ Raised(s, "ValueError: no encontrado", FALSE)
              /\ UNCHANGED session
           \/ /\ d \in DOMAIN documents
              /\ session' = [session EXCEPT
                                ![s].identity_map = @ \cup {d},
                                ![s].expired = @ \ {d}]
              /\ IF Chars[documents[d].full_text] = None
                 THEN Raised(s, "ValueError: no tiene texto", FALSE)
                 ELSE /\ pc' = [pc EXCEPT ![s] = "select_existing"]
                      /\ frame' = [frame EXCEPT
                            ![s].document_length =
                                Len(Chars[documents[d].full_text]),
                            ![s].selected_model =
                                _get_embedding_model(
                                    Len(Chars[documents[d].full_text]))]
                      /\ UNCHANGED hist
    /\ UNCHANGED <<storeVars, batch, outcome, last_count, prev_count,
                   chunkerVars, selectorVars>>

\* lines 128-141
IndexLoad(s) ==
    /\ pc[s] = "load"
    /\ LET d == frame[s].document_id
       IN  \/ /\ Raised(s, "OperationalError", TRUE)
              /\ UNCHANGED session
           \/ /\ d \notin DOMAIN documents
              /\ Raised(s, "ValueError: no encontrado", FALSE)
              /\ UNCHANGED session
           \/ /\ d \in DOMAIN documents
              /\ session' = [session EXCEPT
                                ![s].identity_map = @ \cup {d},
                                ![s].expired = @ \ {d}]
              /\ IF Chars[documents[d].full_text] \in {None, <<>>}
                 THEN Raised(s, "ValueError: no tiene texto", FALSE)
                 ELSE /\ pc' = [pc EXCEPT ![s] = "select_existing"]
                      /\ frame' = [frame EXCEPT
                            ![s].document_length =
                                Len(Chars[documents[d].full_text]),
                            ![s].selected_model =
                                _get_embedding_model(
                                    Len(Chars[documents[d].full_text]))]
                      /\ UNCHANGED hist
    /\ UNCHANGED <<storeVars, batch, outcome, last_count, prev_count,
                   chunkerVars, selectorVars>>

\* lines 143-148
IndexSelectExisting(s) ==
    /\ pc[s] = "select_existing"
    /\ \/ Raised(s, "OperationalError", TRUE)
       \/ LET existing == Ids(ChunksOf(Visible(s), frame[s].document_id))
          IN  /\ frame' = [frame EXCEPT ![s].existing_chunks_list = existing]
              /\ pc' = [pc EXCEPT ![s] =
                            IF existing # {} THEN "delete" ELSE "split"]
              /\ UNCHANGED hist
    /\ UNCHANGED <<storeVars, session, batch, outcome, last_count, prev_count,
                   chunkerVars, selectorVars>>

\* a re-index that leaves the existing chunks in place
DeleteExistingSkipped(s) ==
    /\ UNCHANGED session
    /\ hist' = [hist EXCEPT
                   ![s].deleted = @ + Cardinality(frame[s].existing_chunks_list)]

\* lines 148-152: delete every existing chunk and flush
DeleteExisting(s) ==
    /\ session' = [session EXCEPT
                      ![s].tx_deleted = @ \cup frame[s].existing_chunks_list]
    /\ hist' = [hist EXCEPT
                   ![s].deleted = @ + Cardinality(frame[s].existing_chunks_list)]

IndexDelete(s) ==
    /\ pc[s] = "delete"
    /\ \/ /\ Raised(s, "OperationalError", TRUE)
          /\ UNCHANGED session
       \/ /\ DeleteExisting(s)
          /\ pc' = [pc EXCEPT ![s] = "split"]
          /\ UNCHANGED frame
    /\ UNCHANGED <<storeVars, batch, outcome, last_count, prev_count,
                   chunkerVars, selectorVars>>

\* lines 154-161
IndexSplit(s) ==
    /\ pc[s] = "split"
    /\ LET cs == ChunkRefs(documents[frame[s].document_id].full_text)
       IN  IF cs = <<>>
           THEN Raised(s, "ValueError: no chunks", FALSE)
           ELSE /\ frame' = [frame EXCEPT ![s].chunks = cs, ![s].pos = 1,
                                          ![s].chunks_created = 0]
                /\ pc' = [pc EXCEPT ![s] = "embed"]
                /\ UNCHANGED hist
    /\ UNCHANGED <<storeVars, session, batch, outcome, last_count, prev_count,
                   chunkerVars, selectorVars>>

\* the for loop of line 163 moves to the next chunk, or ends
AfterChunk(s) == IF frame[s].pos = Len(frame[s].chunks) THEN "commit" ELSE "embed"

\* an embedding failure that is not caught per chunk: it aborts the run
IndexEmbedAborts(s) ==
    /\ pc[s] = "embed"
    /\ LET f == frame[s]
           v == _generate_embedding(StrOf(f.chunks[f.pos]), f.document_length,
                                   <<f.document_id, f.pos>> \in embed_fails)
       IN  IF v = 0
           THEN /\ pc' = [pc EXCEPT ![s] = "rollback"]
                /\ frame' = [frame EXCEPT ![s].exc = "Exception: embedding"]
                /\ hist' = [hist EXCEPT ![s].embed_calls = @ + 1,
                                        ![s].embed_failed = @ \cup {f.pos}]
           ELSE /\ frame' = [frame EXCEPT ![s].embedding_vector = v]
                /\ pc' = [pc EXCEPT ![s] = "insert"]
                /\ hist' = [hist EXCEPT ![s].embed_calls = @ + 1]
    /\ UNCHANGED <<storeVars, session, batch, outcome, last_count, prev_count,
                   chunkerVars, selectorVars>>

\* lines 163-169, and 184-187 when the embedding call raises
IndexEmbed(s) ==
    /\ pc[s] = "embed"
    /\ LET f == frame[s]
           v == _generate_embedding(StrOf(f.chunks[f.pos]), f.document_length,
                                   <<f.document_id, f.pos>> \in embed_fails)
       IN  IF v = 0
           THEN /\ frame' = [frame EXCEPT ![s].pos = @ + 1]
                /\ pc' = [pc EXCEPT ![s] = AfterChunk(s)]
                /\ hist' = [hist EXCEPT ![s].embed_calls = @ + 1,
                                        ![s].embed_failed = @ \cup {f.pos}]
           ELSE /\ frame' = [frame EXCEPT ![s].embedding_vector = v]
                /\ pc' = [pc EXCEPT ![s] = "insert"]
                /\ hist' = [hist EXCEPT ![s].embed_calls = @ + 1]
    /\ UNCHANGED <<storeVars, session, batch, outcome, last_count, prev_count,
                   chunkerVars, selectorVars>>

\* a row that takes the chunks from the end of the list
NewChunkReversed(s) ==
    [id          |-> <<frame[s].run, frame[s].pos>>,
     document_id |-> frame[s].document_id,
     chunk_text  |-> frame[s].chunks[Len(frame[s].chunks) + 1 - frame[s].pos],
     embedding   |-> frame[s].embedding_vector]

\* the row of lines 171-175; its uuid is modelled by <<run, position>>
NewChunk(s) ==
    [id          |-> <<frame[s].run, frame[s].pos>>,
     document_id |-> frame[s].document_id,
     chunk_text  |-> frame[s].chunks[frame[s].pos],
     embedding   |-> frame[s].embedding_vector]

\* lines 171-182, and 184-187 when the flush raises.  A flush that raises
\* rolls the session's transaction back and leaves the session unusable until
\* rollback() is called: every later flush and the commit raise.
IndexInsert(s) ==
    /\ pc[s] = "insert"
    /\ \/ /\ ~session[s].needs_rollback
          /\ session' = [session EXCEPT ![s].tx_inserted = @ \cup {NewChunk(s)}]
          /\ frame' = [frame EXCEPT ![s].chunks_created = @ + 1,
                                    ![s].pos = @ + 1]
          /\ hist' = [hist EXCEPT ![s].inserted = @ + 1]
       \/ /\ session' = [session EXCEPT
                            ![s].needs_rollback = TRUE,
                            ![s].tx_deleted = {},
                            ![s].tx_inserted = {},
                            ![s].expired = session[s].identity_map]
          /\ frame' = [frame EXCEPT ![s].pos = @ + 1]
          /\ hist' = [hist EXCEPT ![s].db_fault = TRUE]
    /\ pc' = [pc EXCEPT ![s] = AfterChunk(s)]
    /\ UNCHANGED <<storeVars, batch, outcome, last_count, prev_count,
                   chunkerVars, selectorVars>>

\* a commit that loses the deletes
CommitInsertsOnly(s) ==
    /\ document_chunks' = document_chunks \cup session[s].tx_inserted
    /\ session' = [session EXCEPT ![s].tx_deleted = {}, ![s].tx_inserted = {}]

\* a commit that is skipped when the session inserted no row
CommitUnlessEmpty(s) ==
    /\ document_chunks' =
           IF session[s].tx_inserted = {}
           THEN document_chunks
           ELSE {r \in document_chunks : r.id \notin session[s].tx_deleted}
                    \cup session[s].tx_inserted
    /\ session' = [session EXCEPT ![s].tx_deleted = {}, ![s].tx_inserted = {}]

\* db.commit(): the flushed deletes and inserts become the stored rows
Commit(s) ==
    /\ document_chunks' =
           {r \in document_chunks : r.id \notin session[s].tx_deleted}
               \cup session[s].tx_inserted
    /\ session' = [session EXCEPT ![s].tx_deleted = {}, ![s].tx_inserted = {}]

\* line 189
IndexCommit(s) ==
    /\ pc[s] = "commit"
    /\ \/ /\ ~session[s].needs_rollback
          /\ Commit(s)
          /\ pc' = [pc EXCEPT ![s] = "verify"]
          /\ hist' = [hist EXCEPT ![s].committed = TRUE]
          /\ UNCHANGED frame
       \/ /\ Raised(s, IF session[s].needs_rollback
                       THEN "PendingRollbackError" ELSE "OperationalError", TRUE)
          /\ UNCHANGED <<document_chunks, session>>
    /\ UNCHANGED <<documents, embed_fails, runs, batch, outcome, last_count,
                   prev_count, chunkerVars, selectorVars>>

\* the exceptions of lines 132, 135 and 157
ValueErrors ==
    {"ValueError: no encontrado", "ValueError: no tiene texto",
     "ValueError: no chunks"}

\* routes/upload.py:424-456: the status code of the response of
\* POST /index/{document_id} to what index_document returned or raised
IndexResponseStatus(r) ==
    IF r.kind = "result" THEN 200
    ELSE IF r.error \in ValueErrors THEN 400
    ELSE 500

\* index_document hands r to its caller: the route, or the batch loop
ReturnTo(s, r) ==
    /\ frame' = [frame EXCEPT ![s].ret = r]
    /\ IF frame[s].caller = "batch"
       THEN /\ pc' = [pc EXCEPT ![s] = "collect"]
            /\ UNCHANGED outcome
       ELSE /\ pc' = [pc EXCEPT ![s] = "done"]
            /\ outcome' = [outcome EXCEPT ![s].kind = r.kind, ![s].result = r,
                                          ![s].exc = r.error,
                                          ![s].status = IndexResponseStatus(r)]

\* a result that reports the chunks attempted as the chunks stored
IndexingResultAttempted(s) ==
    [kind |-> "result", document_id |-> frame[s].document_id,
     chunks_indexed |-> Len(frame[s].chunks),
     total_chunks |-> Len(frame[s].chunks),
     embedding_model |-> frame[s].selected_model,
     document_size_chars |-> frame[s].document_length,
     error |-> ""]

\* lines 201-207
IndexingResult(s) ==
    [kind |-> "result", document_id |-> frame[s].document_id,
     chunks_indexed |-> frame[s].chunks_created,
     total_chunks |-> Len(frame[s].chunks),
     embedding_model |-> frame[s].selected_model,
     document_size_chars |-> frame[s].document_length,
     error |-> ""]

\* lines 192-207
IndexVerify(s) ==
    /\ pc[s] = "verify"
    /\ \/ /\ ReturnTo(s, IndexingResult(s))
          /\ LET d == frame[s].document_id
                 n == Cardinality(ChunksOf(Visible(s), d))
             IN  /\ prev_count' = [prev_count EXCEPT ![d] = last_count[d]]
                 /\ last_count' = [last_count EXCEPT ![d] = n]
          /\ UNCHANGED hist
       \/ /\ Raised(s, "OperationalError", TRUE)
          /\ UNCHANGED <<outcome, last_count, prev_count>>
    /\ UNCHANGED <<storeVars, session, batch, chunkerVars, selectorVars>>

\* db.rollback(): the flushed work is dropped and every object the session
\* holds is expired (whatever expire_on_commit says)
Rollback(s) ==
    session' = [session EXCEPT
                   ![s].tx_deleted = {}, ![s].tx_inserted = {},
                   ![s].needs_rollback = FALSE,
                   ![s].expired = session[s].identity_map]

\* an exception handler that keeps the flushed work instead of dropping it
IndexRollbackKeeps(s) ==
    /\ pc[s] = "rollback"
    /\ ~session[s].needs_rollback
    /\ Commit(s)
    /\ ReturnTo(s, [NoRet EXCEPT !.kind = "raise",
                                 !.document_id = frame[s].document_id,
                                 !.error = frame[s].exc])
    /\ UNCHANGED <<documents, embed_fails, runs, batch, hist, last_count,
                   prev_count, chunkerVars, selectorVars>>

\* lines 209-212
IndexRollback(s) ==
    /\ pc[s] = "rollback"
    /\ Rollback(s)
    /\ ReturnTo(s, [NoRet EXCEPT !.kind = "raise",
                                 !.document_id = frame[s].document_id,
                                 !.error = frame[s].exc])
    /\ UNCHANGED <<storeVars, batch, hist, last_count, prev_count, chunkerVars, selectorVars>>


(***************************************************************************)
(* reindex_all_unindexed (lines 233-263).  The Document objects of         *)
(* unindexed_docs live in the request's session; reading an attribute of   *)
(* an expired object needs a database round trip, which the AsyncSession   *)
(* cannot make from plain attribute access: it raises MissingGreenlet.     *)
(***************************************************************************)
\* the batch request, with a new session
StartReindex(s) ==
    /\ pc[s] \in {"idle", "done"}
    /\ runs + Cardinality(get_unindexed_documents(document_chunks)) <= MaxRuns
    /\ pc' = [pc EXCEPT ![s] = "find"]
    /\ frame' = [frame EXCEPT ![s] = IdleFrame]
    /\ session' = [session EXCEPT ![s] = FreshSession]
    /\ batch' = [batch EXCEPT ![s] = IdleBatch]
    /\ outcome' = [outcome EXCEPT ![s] = [NoOutcome EXCEPT !.op = "reindex"]]
    /\ hist' = [hist EXCEPT ![s] = NewHist(0)]
    /\ UNCHANGED <<storeVars, last_count, prev_count, chunkerVars, selectorVars>>

\* the exception e leaves reindex_all_unindexed (lines 261-263); POST /reindex
\* answers 500 (routes/upload.py:301-310)
BatchRaises(s, e) ==
    /\ pc' = [pc EXCEPT ![s] = "done"]
    /\ outcome' = [outcome EXCEPT ![s].kind = "raise", ![s].exc = e,
                                  ![s].status = 500]

\* return results (lines 239 and 259); POST /reindex answers 200
\* (routes/upload.py:278-299)
BatchReturns(s, rs) ==
    /\ pc' = [pc EXCEPT ![s] = "done"]
    /\ outcome' = [outcome EXCEPT ![s].kind = "list", ![s].results = rs,
                                  ![s].status = 200]

\* a batch that treats an empty finder result as an error
ReindexFindEmptyRaises(s) ==
    /\ pc[s] = "find"
    /\ \/ /\ BatchRaises(s, "OperationalError")
          /\ UNCHANGED <<session, batch>>
       \/ LET docs == SortedSeq(get_unindexed_documents(Visible(s)))
          IN  /\ session' = [session EXCEPT
                                ![s].identity_map = {docs[n] : n \in 1..Len(docs)}]
              /\ IF docs = <<>>
                 THEN /\ BatchRaises(s, "ValueError: no hay documentos")
                      /\ UNCHANGED batch
                 ELSE /\ batch' = [batch EXCEPT ![s] =
                             [unindexed_docs |-> docs, doc_pos |-> 1,
                              results |-> <<>>]]
                      /\ pc' = [pc EXCEPT ![s] = "next"]
                      /\ UNCHANGED outcome
    /\ UNCHANGED <<storeVars, frame, hist, last_count, prev_count, chunkerVars,
                   selectorVars>>

\* lines 235-243, with get_unindexed_documents (lines 215-230)
ReindexFind(s) ==
    /\ pc[s] = "find"
    /\ \/ /\ BatchRaises(s, "OperationalError")
          /\ UNCHANGED <<session, batch>>
       \/ LET docs == SortedSeq(get_unindexed_documents(Visible(s)))
          IN  /\ session' = [session EXCEPT
                                ![s].identity_map = {docs[n] : n \in 1..Len(docs)}]
              /\ IF docs = <<>>
                 THEN /\ BatchReturns(s, <<>>)
                      /\ UNCHANGED batch
                 ELSE /\ batch' = [batch EXCEPT ![s] =
                             [unindexed_docs |-> docs, doc_pos |-> 1,
                              results |-> <<>>]]
                      /\ pc' = [pc EXCEPT ![s] = "next"]
                      /\ UNCHANGED outcome
    /\ UNCHANGED <<storeVars, frame, hist, last_count, prev_count, chunkerVars, selectorVars>>

\* lines 245-247: the next document; doc.id is read to call index_document
ReindexNext(s) ==
    /\ pc[s] = "next"
    /\ LET doc == batch[s].unindexed_docs[batch[s].doc_pos]
       IN  IF doc \in session[s].expired
           THEN /\ BatchRaises(s, "MissingGreenlet")
                /\ UNCHANGED <<runs, frame, hist>>
           ELSE /\ runs' = runs + 1
                /\ frame' = [frame EXCEPT ![s] = NewFrame("batch", doc, runs + 1)]
                /\ hist' = [hist EXCEPT ![s] = NewHist(doc)]
                /\ pc' = [pc EXCEPT ![s] = "load"]
                /\ UNCHANGED outcome
    /\ UNCHANGED <<documents, document_chunks, embed_fails, session, batch,
                   last_count, prev_count, chunkerVars, selectorVars>>

\* lines 253-257
ErrorRecord(doc, e) ==
    [NoRet EXCEPT !.kind = "error", !.document_id = doc, !.chunks_indexed = 0,
                  !.error = e]

\* lines 248-259: the outcome of index_document is collected; both branches
\* read doc.filename for their log line before (line 252) or after (line 249)
\* the append
ReindexCollect(s) ==
    /\ pc[s] = "collect"
    /\ LET doc == batch[s].unindexed_docs[batch[s].doc_pos]
           r   == frame[s].ret
           rs  == Append(batch[s].results,
                         IF r.kind = "result" THEN r
                         ELSE ErrorRecord(doc, r.error))
       IN  IF r.kind = "raise" /\ doc \in session[s].expired
           THEN /\ BatchRaises(s, "MissingGreenlet")
                /\ UNCHANGED batch
           ELSE IF r.kind = "result" /\ doc \in session[s].expired
           THEN /\ BatchRaises(s, "MissingGreenlet")
                /\ batch' = [batch EXCEPT ![s].results = rs]
           ELSE IF batch[s].doc_pos = Len(batch[s].unindexed_docs)
           THEN /\ BatchReturns(s, rs)
                /\ batch' = [batch EXCEPT ![s].results = rs]
           ELSE /\ batch' = [batch EXCEPT ![s].results = rs,
                                          ![s].doc_pos = @ + 1]
                /\ pc' = [pc EXCEPT ![s] = "next"]
                /\ UNCHANGED outcome
    /\ UNCHANGED <<storeVars, frame, session, hist, last_count, prev_count,
                   chunkerVars, selectorVars>>

(***************************************************************************)
(* Specifications.                                                         *)
(*   Spec         requests served one after the other                      *)
(*   SpecConc     two index_document requests in flight at once            *)
(*   SpecChunker  one call of _split_text_into_chunks on every small input *)
(*                and on two texts with the default parameters             *)
(*   SpecSelector calls of _get_embedding_model around the threshold       *)
(*   SpecOutage   requests served one after the other while the embedding  *)
(*                provider's failures change between them                  *)
(*   SpecLarge    requests for a document longer than the threshold        *)
(***************************************************************************)
InitRequests ==
    /\ document_chunks = {}
    /\ runs = 0
    /\ pc = [s \in Sessions |-> "idle"]
    /\ frame = [s \in Sessions |-> IdleFrame]
    /\ session = [s \in Sessions |-> FreshSession]
    /\ batch = [s \in Sessions |-> IdleBatch]
    /\ outcome = [s \in Sessions |-> NoOutcome]
    /\ hist = [s \in Sessions |-> NewHist(0)]
    /\ last_count = [d \in DocumentIds |-> -1]
    /\ prev_count = [d \in DocumentIds |-> -1]

InitIndex ==
    /\ documents = Documents
    /\ InitRequests

Init ==
    /\ ChunkerIdle
    /\ SelectorIdle
    /\ documents \in DocumentTables
    /\ InitRequests
    /\ embed_fails \in SUBSET FallibleChunks

IndexStep(s) ==
    \/ IndexLoad(s)
    \/ IndexSelectExisting(s)
    \/ IndexDelete(s)
    \/ IndexSplit(s)
    \/ IndexEmbed(s)
    \/ IndexInsert(s)
    \/ IndexCommit(s)
    \/ IndexVerify(s)
    \/ IndexRollback(s)

Next ==
    \E s \in {1} :
        \/ \E d \in RequestIds : StartIndex(s, d)
        \/ IndexStep(s)
        \/ StartReindex(s)
        \/ ReindexFind(s)
        \/ ReindexNext(s)
        \/ ReindexCollect(s)

Spec == Init /\ [][Next]_vars

InitConc ==
    /\ ChunkerIdle
    /\ SelectorIdle
    /\ InitIndex
    /\ embed_fails = {}

\* two requests for documents with a text, in flight together
StartConcurrent(s, d) ==
    /\ runs < MaxConcRuns
    /\ StartIndex(s, d)

NextConc ==
    \E s \in Sessions :
        \/ \E d \in {1, 3} : StartConcurrent(s, d)
        \/ IndexStep(s)

SpecConc == InitConc /\ [][NextConc]_vars

\* the embedding provider starts or stops failing for some chunks (the
\* exception handler of lines 121-123), between two requests
ProviderChange ==
    /\ \A s \in Sessions : pc[s] \in {"idle", "done"}
    /\ \E fails \in SUBSET FallibleChunks :
           /\ fails # embed_fails
           /\ embed_fails' = fails
    /\ UNCHANGED <<documents, document_chunks, runs, pc, frame, session,
                   batch, outcome, hist, last_count, prev_count, chunkerVars,
                   selectorVars>>

\* requests, one after the other, while the provider's failures come and go
InitOutage ==
    /\ ChunkerIdle
    /\ SelectorIdle
    /\ InitIndex
    /\ embed_fails = {}

NextOutage ==
    \/ \E s \in {1} :
           \/ \E d \in {1, 3} : StartIndex(s, d)
           \/ IndexStep(s)
    \/ ProviderChange

SpecOutage == InitOutage /\ [][NextOutage]_vars

\* requests, one after the other, for the documents of LargeDocumentTable
InitLarge ==
    /\ ChunkerIdle
    /\ SelectorIdle
    /\ documents = LargeDocumentTable
    /\ InitRequests
    /\ embed_fails \in SUBSET {<<7, 2>>, <<3, 1>>}

NextLarge ==
    \E s \in {1} :
        \/ \E d \in DOMAIN LargeDocumentTable : StartIndex(s, d)
        \/ IndexStep(s)

SpecLarge == InitLarge /\ [][NextLarge]_vars

\* a text of 4500 characters without a delimiter, for the default
\* max_chars and overlap of line 47
LongPlainText == Rep("a", 2 * MAX_CHUNK_CHARS + 500)

\* a text of 2005 characters that begins with a one-letter line and a
\* one-letter word and goes on without a delimiter
DelimitedText ==
    <<"a", "\n", "a", " ">> \o Rep("a", MAX_CHUNK_CHARS + 1)

InitChunker ==
    /\ \/ /\ text \in Texts
          /\ max_chars \in 1..MaxMaxChars
          /\ overlap \in 0..(max_chars - 1)
       \/ /\ text \in {LongPlainText, DelimitedText}
          /\ max_chars = MAX_CHUNK_CHARS
          /\ overlap = CHUNK_OVERLAP
    /\ start = 0 /\ chunks = <<>> /\ spans = <<>> /\ cpc = "call"
    /\ SelectorIdle
    /\ InitIndex
    /\ embed_fails = {}

NextChunker == SplitEntry \/ SplitIterate

SpecChunker == InitChunker /\ [][NextChunker]_vars

\* the lengths the selector is called with
Lengths ==
    (0..SelectorWindow)
        \cup ((LARGE_DOCUMENT_THRESHOLD - SelectorWindow)
                  ..(LARGE_DOCUMENT_THRESHOLD + SelectorWindow))

\* line 139: the selector called with the length of the document's text
SelectForDocument(document_length) ==
    /\ document_length >= 1
    /\ sel_length' = document_length
    /\ sel_model' = _get_embedding_model(document_length)
    /\ UNCHANGED <<chunkerVars, indexVars>>

\* line 84: the selector called with document_length or len(clean_text),
\* where document_length is None (0 here) when the caller gave none
SelectForChunk(document_length, clean_length) ==
    /\ clean_length >= 1
    /\ LET length == IF document_length # 0 THEN document_length
                                            ELSE clean_length
       IN  /\ sel_length' = length
           /\ sel_model' = _get_embedding_model(length)
    /\ UNCHANGED <<chunkerVars, indexVars>>

InitSelector ==
    /\ ChunkerIdle
    /\ SelectorIdle
    /\ InitIndex
    /\ embed_fails = {}

NextSelector ==
    \/ \E n \in Lengths : SelectForDocument(n)
    \/ \E n \in Lengths, c \in {1, SelectorWindow} : SelectForChunk(n, c)

SpecSelector == InitSelector /\ [][NextSelector]_vars


(***************************************************************************)
(* Properties.                                                             *)
(***************************************************************************)
\* the invocation of session s has ended: it returned a result or raised
Ended(s) == frame[s].ret.kind \in {"result", "raise"}

\* the rows stored for the document of session s's invocation
StoredFor(s) == ChunksOf(document_chunks, frame[s].document_id)

\* the ids of the rows a run inserts: one per chunk whose embedding succeeded
RunIds(s) ==
    {<<frame[s].run, p>> : p \in (1..Len(frame[s].chunks)) \ hist[s].embed_failed}

\* the document named by session s has no row, or no text to index
Unindexable(s) ==
    \/ frame[s].document_id \notin DOMAIN documents
    \/ Chars[documents[frame[s].document_id].full_text] \in {None, <<>>}

\* C1: after an index_document call that returned a result (requests served
\* one after the other), the rows stored for the document are exactly the rows
\* that run inserted; no row that existed before the call is left.
C1_StoredChunksAreThoseOfTheRun ==
    \A s \in Sessions :
        frame[s].ret.kind = "result" =>
            /\ Ids(StoredFor(s)) = RunIds(s)
            /\ Ids(StoredFor(s)) \cap hist[s].before = {}

\* a re-index of a document that had rows returned, and rows are stored
C1_Witness ==
    \E s \in Sessions :
        /\ frame[s].ret.kind = "result"
        /\ hist[s].before # {}
        /\ StoredFor(s) # {}

\* C2: two index_document calls in succession for a document with unchanged
\* text store the same number of rows: after the second as after the first.
C2_ReindexKeepsCount ==
    \A d \in DOMAIN documents :
        prev_count[d] # -1 => last_count[d] = prev_count[d]

\* a document was indexed twice, with rows stored each time
C2_Witness ==
    \E d \in DOMAIN documents : prev_count[d] >= 1 /\ last_count[d] >= 1

\* C3: when exactly one of the N embedding calls of a run fails (and storage
\* does not), the run returns a result with chunks_indexed = N - 1 and
\* total_chunks = N, N - 1 rows are stored, and the failed chunk is never
\* among the rows, flushed or stored.
C3_OneEmbeddingFailure ==
    \A s \in Sessions :
        /\ \A p \in hist[s].embed_failed :
               <<frame[s].run, p>> \notin
                   Ids(document_chunks \cup session[s].tx_inserted)
        /\ (Ended(s) /\ Cardinality(hist[s].embed_failed) = 1
                /\ ~hist[s].db_fault) =>
               /\ frame[s].ret.kind = "result"
               /\ frame[s].ret.total_chunks = Len(frame[s].chunks)
               /\ frame[s].ret.chunks_indexed = Len(frame[s].chunks) - 1
               /\ Cardinality(StoredFor(s)) = Len(frame[s].chunks) - 1
               /\ Ids(StoredFor(s)) = RunIds(s)

\* a run of two chunks returned after one embedding failure
C3_Witness ==
    \E s \in Sessions :
        /\ frame[s].ret.kind = "result"
        /\ Cardinality(hist[s].embed_failed) = 1
        /\ frame[s].ret.total_chunks = 2
        /\ Cardinality(StoredFor(s)) = 1

\* C4: when index_document raises at a step before or at the commit, nothing
\* of the run is left: the session holds no flushed work and the rows stored
\* for the document are the rows stored before the call.
C4_RaiseLeavesChunksUntouched ==
    \A s \in Sessions :
        (frame[s].ret.kind = "raise" /\ ~hist[s].committed) =>
            /\ Ids(StoredFor(s)) = hist[s].before
            /\ session[s].tx_deleted = {}
            /\ session[s].tx_inserted = {}

\* a run raised after it had deleted the old rows and inserted a new one
C4_Witness ==
    \E s \in Sessions :
        /\ frame[s].ret.kind = "raise"
        /\ ~hist[s].committed
        /\ hist[s].deleted > 0
        /\ hist[s].inserted > 0

\* C5: index_document for an id without a row, or for a document whose text
\* is NULL or empty, does no work at any moment (no delete, no insert, no
\* embedding call) and ends by raising: the ValueError of the failed
\* precondition, unless the load itself failed.
C5_FailFast ==
    \A s \in Sessions :
        (frame[s].caller # "" /\ Unindexable(s)) =>
            /\ hist[s].deleted = 0
            /\ hist[s].inserted = 0
            /\ hist[s].embed_calls = 0
            /\ session[s].tx_deleted = {} /\ session[s].tx_inserted = {}
            /\ frame[s].ret.kind # "result"
            /\ frame[s].ret.kind = "raise" =>
                   /\ Ids(StoredFor(s)) = hist[s].before
                   /\ frame[s].ret.error \in
                          {"OperationalError",
                           IF frame[s].document_id \in DOMAIN documents
                           THEN "ValueError: no tiene texto"
                           ELSE "ValueError: no encontrado"}

\* a call for a document with an empty text raised, while rows of other
\* documents are stored
C5_Witness ==
    \E s \in Sessions :
        /\ frame[s].ret.kind = "raise"
        /\ frame[s].ret.error = "ValueError: no tiene texto"
        /\ frame[s].document_id \in DOMAIN documents
        /\ Chars[documents[frame[s].document_id].full_text] = <<>>
        /\ document_chunks # {}

\* the batch request of session s has ended
BatchEnded(s) == outcome[s].op = "reindex" /\ pc[s] = "done"

\* C6: a batch over k unindexed documents returns k outcomes, one per document
\* in the finder's order: the IndexingResult of a document whose indexing
\* returned, an error record with chunks_indexed 0 for one whose indexing
\* raised.
C6_BatchIsolation ==
    \A s \in Sessions :
        (BatchEnded(s) /\ batch[s].unindexed_docs # <<>>) =>
            /\ outcome[s].kind = "list"
            /\ Len(outcome[s].results) = Len(batch[s].unindexed_docs)
            /\ \A n \in 1..Len(outcome[s].results) :
                   /\ outcome[s].results[n].document_id =
                          batch[s].unindexed_docs[n]
                   /\ outcome[s].results[n].kind \in {"result", "error"}
                   /\ outcome[s].results[n].kind = "error" =>
                          outcome[s].results[n].chunks_indexed = 0

\* C7: a batch request always ends with a list of outcomes, never with an
\* exception.
C7_BatchAlwaysReturnsList ==
    \A s \in Sessions : BatchEnded(s) => outcome[s].kind = "list"

\* C8 as stated: once index_document returned a result for a document, the
\* finder no longer returns the document.
C8_Original ==
    \A s \in Sessions :
        frame[s].ret.kind = "result" =>
            frame[s].document_id \notin get_unindexed_documents(document_chunks)

\* C8, amended: a document with a text and no row is returned by the finder,
\* and once index_document returned a result with chunks_indexed >= 1 for a
\* document the finder no longer returns it.
C8_IndexedLeavesFinder ==
    /\ \A d \in DOMAIN documents :
           (Chars[documents[d].full_text] \notin {None, <<>>}
                /\ ChunksOf(document_chunks, d) = {}) =>
               d \in get_unindexed_documents(document_chunks)
    /\ \A s \in Sessions :
           (frame[s].ret.kind = "result" /\ frame[s].ret.chunks_indexed >= 1) =>
               frame[s].document_id
                   \notin get_unindexed_documents(document_chunks)

\* a document that had no row was indexed with at least one chunk stored
C8_Witness ==
    \E s \in Sessions :
        /\ frame[s].ret.kind = "result"
        /\ frame[s].ret.chunks_indexed >= 1
        /\ hist[s].before = {}
        /\ frame[s].document_id \notin get_unindexed_documents(document_chunks)

\* C9: when two index_document runs for the same document have both returned,
\* the rows stored for the document are those of exactly one of the runs.
C9_ConcurrentRunsExcluded ==
    \A s, t \in Sessions :
        (s # t /\ frame[s].ret.kind = "result" /\ frame[t].ret.kind = "result"
             /\ frame[s].document_id = frame[t].document_id) =>
            \/ Ids(StoredFor(s)) = RunIds(s)
            \/ Ids(StoredFor(s)) = RunIds(t)

\* C10: _split_text_into_chunks returns at least one chunk for every
\* non-empty text.
C10_AtLeastOneChunk ==
    (cpc = "done" /\ text # <<>>) => chunks # <<>>

\* the text of the k-th span cut so far: text[start:end]
SpanText(k) == Slice(text, spans[k][1], spans[k][2])

\* no delimiter occurs in the window text[s : s + max_chars]
NoDelimiterIn(s) ==
    \A k \in 1..Len(Delimiters) :
        RFind(text, Delimiters[k], s, s + max_chars) = -1

\* C11: for 0 <= overlap < max_chars the spans [start, end) the loop cuts
\* cover the text without a gap: the first starts at 0, each next one (also
\* the one about to be cut) starts at or before the end of the one before, the
\* last one ends at or after the end of the text; every span that is not blank
\* gave its trimmed text as a chunk, and every character that is not
\* whitespace lies in a span (on the short path, in the one chunk).
C11_SpansCoverText ==
    /\ spans # <<>> =>
           /\ spans[1][1] = 0
           /\ \A k \in 1..(Len(spans) - 1) : spans[k + 1][1] <= spans[k][2]
           /\ start <= spans[Len(spans)][2]
           /\ cpc = "done" => spans[Len(spans)][2] >= Len(text)
           /\ \A k \in 1..Len(spans) :
                  Strip(SpanText(k)) # <<>> =>
                      \E c \in 1..Len(chunks) : chunks[c] = Strip(SpanText(k))
    /\ (cpc = "done" /\ spans # <<>>) =>
           \A i \in 0..(Len(text) - 1) :
               text[i + 1] \notin Whitespace =>
                   \E k \in 1..Len(spans) :
                       spans[k][1] <= i /\ i < spans[k][2]
    /\ (cpc = "done" /\ spans = <<>> /\ text # <<>>) => chunks = <<text>>

\* a text was cut into three spans or more, one of them cut at a delimiter,
\* with an overlap
C11_Witness ==
    /\ cpc = "done"
    /\ Len(spans) >= 3
    /\ overlap >= 1
    /\ \E k \in 1..Len(spans) : spans[k][2] - spans[k][1] < max_chars
    /\ \E i \in 1..Len(text) : text[i] \notin Whitespace

\* C12 as stated: no span holds more than max_chars characters, and a span
\* that is not the last one and has no delimiter in its window holds exactly
\* max_chars characters.
C12_Original ==
    \A k \in 1..Len(spans) :
        /\ Len(SpanText(k)) <= max_chars
        /\ ((k < Len(spans) \/ cpc = "loop") /\ NoDelimiterIn(spans[k][1])) =>
               Len(SpanText(k)) = max_chars

\* C12, amended: no span is longer than max_chars, as [start, end) and in
\* characters; a span whose provisional end start + max_chars lies before the
\* end of the text and that has no delimiter in its window ends there and
\* holds exactly max_chars characters.
C12_SpanBounded ==
    \A k \in 1..Len(spans) :
        /\ spans[k][2] - spans[k][1] <= max_chars
        /\ Len(SpanText(k)) <= max_chars
        /\ (spans[k][1] + max_chars < Len(text) /\ NoDelimiterIn(spans[k][1])) =>
               /\ spans[k][2] = spans[k][1] + max_chars
               /\ Len(SpanText(k)) = max_chars

\* a text with a delimiter was cut hard, in a window without a delimiter
C12_Witness ==
    /\ cpc = "done"
    /\ max_chars >= 2
    /\ \E i \in 1..Len(text) : text[i] \in Whitespace
    /\ \E k \in 1..(Len(spans) - 1) :
           /\ spans[k][1] + max_chars < Len(text)
           /\ NoDelimiterIn(spans[k][1])
           /\ Len(SpanText(k)) = max_chars

\* C13: for a text of length L and overlap < max_chars the loop ends after at
\* most L iterations: the start position grows with every iteration (also
\* towards the span about to be cut), there are never more than L spans, and
\* while the loop has not ended its next iteration can run and is one of the
\* L.
C13_LoopTerminates ==
    /\ Len(spans) <= Len(text)
    /\ \A k \in 1..(Len(spans) - 1) : spans[k + 1][1] > spans[k][1]
    /\ spans # <<>> => start > spans[Len(spans)][1]
    /\ cpc = "loop" => (start < Len(text) /\ Len(spans) < Len(text))

\* a call ended after exactly len(text) iterations, one per character,
\* although max_chars is larger than one
C13_Witness ==
    /\ cpc = "done"
    /\ Len(text) >= 4
    /\ max_chars >= 2
    /\ Len(spans) = Len(text)

\* the call on the text of 4500 characters, with the defaults, has returned
LongPlainSplit ==
    /\ cpc = "done"
    /\ Len(text) = 4500
    /\ text = LongPlainText
    /\ max_chars = 2000
    /\ overlap = 200

\* the lengths of the chunks returned
ChunkLengths == [c \in 1..Len(chunks) |-> Len(chunks[c])]

\* the start offsets of the spans cut
SpanStarts == [k \in 1..Len(spans) |-> spans[k][1]]

\* C14 as stated: 4500 characters without a delimiter, max_chars = 2000 and
\* overlap = 200 give three chunks of lengths [2000, 2000, 500].
C14_Original == LongPlainSplit => ChunkLengths = <<2000, 2000, 500>>

\* C14, amended: 4500 characters without a delimiter, max_chars = 2000 and
\* overlap = 200 give three chunks of lengths [2000, 2000, 900]: the third
\* chunk starts at 3600 and runs to the end of the text.
C14_ExampleLengths == LongPlainSplit => ChunkLengths = <<2000, 2000, 900>>

\* the text of 4500 characters was split into three chunks
C14_Witness == LongPlainSplit /\ Len(chunks) = 3

\* C15: 4500 characters without a delimiter, max_chars = 2000 and
\* overlap = 200: the chunks start at offsets [0, 1800, 3600], each advance
\* being end - overlap, and the loop ends after the span that starts at 3600.
C15_ExampleOffsets ==
    LongPlainSplit =>
        /\ SpanStarts = <<0, 1800, 3600>>
        /\ \A k \in 1..2 : spans[k + 1][1] = spans[k][2] - overlap
        /\ Len(chunks) = Len(spans)
        /\ start >= Len(text)

\* the loop over the text of 4500 characters ended after a span that starts
\* at 3600
C15_Witness ==
    /\ LongPlainSplit
    /\ spans # <<>>
    /\ spans[Len(spans)][1] = 3600

\* C16: _get_embedding_model gives the small model for every length up to
\* and including 150000 and the large model for every length from 150001 on,
\* whichever caller passed the length.
C16_ModelByThreshold ==
    sel_model # "" =>
        /\ sel_length <= 150000 => sel_model = "text-embedding-3-small"
        /\ sel_length >= 150001 => sel_model = "text-embedding-3-large"
        /\ sel_model \in {"text-embedding-3-small", "text-embedding-3-large"}

\* the selector was called with the threshold itself and gave the small model
C16_Witness ==
    /\ sel_length = LARGE_DOCUMENT_THRESHOLD
    /\ sel_model = "text-embedding-3-small"

\* C17: a storage failure during an index_document run (on the delete of the
\* old chunks, on the insert or flush of a chunk, on the commit) aborts the
\* run: from the failure on the run does nothing but roll back and raise to
\* its caller (at most through the commit, which raises on a session whose
\* flush failed); it is not taken for a skipped chunk, with the loop going on
\* to the next chunk.
C17_PersistenceFailureAborts ==
    \A s \in Sessions :
        hist[s].db_fault =>
            \/ pc[s] = "rollback"
            \/ pc[s] = "commit" /\ session[s].needs_rollback
            \/ frame[s].ret.kind = "raise"

\* the request POST /index/{document_id} of session s was answered
IndexAnswered(s) == outcome[s].op = "index" /\ pc[s] = "done"

\* C18: when the text of the document is not empty and chunking gives no
\* chunk, index_document raises the no-chunks error and the indexing endpoint
\* answers with a server-class status (5xx), not with the client-class status
\* it gives for a document that is missing or has no text.
C18_NoChunksIsServerError ==
    \A s \in Sessions :
        (IndexAnswered(s) /\ outcome[s].exc = "ValueError: no chunks") =>
            /\ outcome[s].status \in 500..599
            /\ outcome[s].status # IndexResponseStatus(
                   [NoRet EXCEPT !.kind = "raise",
                                 !.error = "ValueError: no encontrado"])
            /\ outcome[s].status # IndexResponseStatus(
                   [NoRet EXCEPT !.kind = "raise",
                                 !.error = "ValueError: no tiene texto"])

\* the documents with a text that is present and not empty, less those that
\* a stored chunk references
TextButNoChunk ==
    {d \in DOMAIN documents : Chars[documents[d].full_text] \notin {None, <<>>}}
        \ {r.document_id : r \in document_chunks}

\* the finder step of session s: reindex_all_unindexed calls
\* get_unindexed_documents and the query does not fail
FinderStep(s) ==
    /\ pc[s] = "find"
    /\ pc'[s] # "find"
    /\ outcome'[s].exc # "OperationalError"

\* C19: get_unindexed_documents returns exactly the documents whose text is
\* present and not empty and that no chunk references, each once, and the
\* call changes neither the documents nor the chunks stored.
C19_FinderIsSetDifference ==
    [][\A s \in Sessions :
          (pc[s] = "find" /\ pc'[s] # "find") =>
              /\ UNCHANGED <<documents, document_chunks>>
              /\ FinderStep(s) =>
                     /\ session'[s].identity_map = TextButNoChunk
                     /\ TextButNoChunk # {} =>
                            /\ {batch'[s].unindexed_docs[n] :
                                    n \in DOMAIN batch'[s].unindexed_docs}
                                   = TextButNoChunk
                            /\ Len(batch'[s].unindexed_docs)
                                   = Cardinality(TextButNoChunk)]_vars

\* the finder returned some but not all of the documents with a text, while
\* chunks are stored
C19_Witness ==
    \E s \in Sessions :
        /\ outcome[s].op = "reindex"
        /\ pc[s] = "next"
        /\ batch[s].doc_pos = 1
        /\ batch[s].unindexed_docs # <<>>
        /\ document_chunks # {}

\* C20: when the finder returns no document, reindex_all_unindexed returns
\* the empty list at once: it does not raise, it does not call
\* index_document, and no document and no chunk changes.
C20_NothingToReindex ==
    [][\A s \in Sessions :
          (FinderStep(s) /\ TextButNoChunk = {}) =>
              /\ pc'[s] = "done"
              /\ outcome'[s].kind = "list"
              /\ outcome'[s].results = <<>>
              /\ frame'[s] = IdleFrame
              /\ runs' = runs
              /\ session'[s].tx_deleted = {} /\ session'[s].tx_inserted = {}
              /\ UNCHANGED <<documents, document_chunks>>]_vars

\* a batch request found every document with a text indexed and returned the
\* empty list
C20_Witness ==
    \E s \in Sessions :
        /\ BatchEnded(s)
        /\ outcome[s].kind = "list"
        /\ outcome[s].results = <<>>
        /\ TextButNoChunk = {}
        /\ document_chunks # {}

\* the text of the document of session s's invocation
TextOf(s) == documents[frame[s].document_id].full_text

\* C21: a result returned by index_document (requests served one after the
\* other) reports as chunks_indexed the number of rows stored for the
\* document, as total_chunks the number of chunks the chunker gave for its
\* text, the model selected for the length of the text, and that length; and
\* 0 <= chunks_indexed <= total_chunks.
C21_ResultReportsRun ==
    \A s \in Sessions :
        frame[s].ret.kind = "result" =>
            LET r == frame[s].ret
            IN  /\ r.document_id = frame[s].document_id
                /\ r.chunks_indexed = Cardinality(StoredFor(s))
                /\ r.total_chunks = Len(ChunkerOutput[TextOf(s)])
                /\ r.document_size_chars = Len(Chars[TextOf(s)])
                /\ r.embedding_model =
                       _get_embedding_model(Len(Chars[TextOf(s)]))
                /\ 0 <= r.chunks_indexed
                /\ r.chunks_indexed <= r.total_chunks

\* a re-index returned a result with fewer chunks stored than attempted
C21_Witness ==
    \E s \in Sessions :
        /\ frame[s].ret.kind = "result"
        /\ hist[s].before # {}
        /\ frame[s].ret.chunks_indexed >= 1
        /\ frame[s].ret.chunks_indexed < frame[s].ret.total_chunks

\* the rows, flushed or stored, that the invocation of session s inserted
RowsOfRun(s) ==
    {r \in document_chunks \cup session[s].tx_inserted :
        r.id[1] = frame[s].run}

\* C22: within one index_document run the chunks are processed one after the
\* other in the chunker's order: when the embedding of chunk i is requested,
\* the embedding calls of the chunks 1..i-1 and no other have been made and
\* each of those chunks has been inserted or given up; the insert of chunk i
\* follows its own embedding; the row of position i holds the i-th chunk, and
\* rows are inserted in increasing position.
C22_ChunksInOrder ==
    \A s \in Sessions :
        frame[s].chunks # <<>> =>
            LET f == frame[s]
                h == hist[s]
            IN  /\ h.embed_calls = IF pc[s] = "insert" THEN f.pos ELSE f.pos - 1
                /\ pc[s] \in {"embed", "insert"} => f.pos \in 1..Len(f.chunks)
                /\ h.embed_failed \subseteq 1..(f.pos - 1)
                /\ h.inserted + Cardinality(h.embed_failed) <= f.pos - 1
                /\ ~h.db_fault =>
                       h.inserted + Cardinality(h.embed_failed) = f.pos - 1
                /\ \A r \in RowsOfRun(s) :
                       /\ r.id[2] \in 1..(f.pos - 1)
                       /\ r.id[2] \notin h.embed_failed
                       /\ r.chunk_text = ChunkRefs(TextOf(s))[r.id[2]]

\* a run of two chunks has inserted the first and is about to insert the
\* second
C22_Witness ==
    \E s \in Sessions :
        /\ pc[s] = "insert"
        /\ frame[s].pos = 2
        /\ \E r \in session[s].tx_inserted : r.id = <<frame[s].run, 1>>

\* delim occurs at offset i, wholly inside the window [s, e0) of text
OccursAt(delim, s, e0, i) ==
    /\ s <= i
    /\ i + Len(delim) <= e0
    /\ MatchAt(text, delim, i)

OccursIn(delim, s, e0) ==
    \E i \in s..e0 : OccursAt(delim, s, e0, i)

\* C23: the delimiters are tried in the order paragraph break, line break,
\* sentence end, space; the first kind that occurs anywhere in the window
\* [start, start + max_chars) decides the cut, also when a kind of lower
\* priority occurs later in the window, and the span ends right after the
\* last occurrence of that kind; with no delimiter in the window, or with a
\* window that reaches the end of the text, the end stays start + max_chars.
C23_DelimiterPriority ==
    \A k \in 1..Len(spans) :
        LET s  == spans[k][1]
            e  == spans[k][2]
            e0 == s + max_chars
        IN  IF \/ e0 >= Len(text)
               \/ \A j \in 1..Len(Delimiters) : ~OccursIn(Delimiters[j], s, e0)
            THEN e = e0
            ELSE \E j \in 1..Len(Delimiters) :
                    /\ OccursIn(Delimiters[j], s, e0)
                    /\ \A h \in 1..(j - 1) : ~OccursIn(Delimiters[h], s, e0)
                    /\ OccursAt(Delimiters[j], s, e0, e - Len(Delimiters[j]))
                    /\ \A i \in s..e0 :
                           OccursAt(Delimiters[j], s, e0, i) =>
                               i <= e - Len(Delimiters[j])

\* a span was cut after a sentence end although a space occurs later in its
\* window
C23_Witness ==
    /\ \E k \in 1..Len(spans) :
           /\ spans[k][1] + max_chars < Len(text)
           /\ OccursAt(Delimiters[3], spans[k][1], spans[k][1] + max_chars,
                       spans[k][2] - 2)
           /\ \E i \in spans[k][2]..(spans[k][1] + max_chars) :
                  OccursAt(Delimiters[4], spans[k][1],
                           spans[k][1] + max_chars, i)
    /\ cpc = "done"

\* C24: the embedding model of an index_document run is fixed for the whole
\* run: every embedding call of the run uses the model derived from the
\* length of the whole document, which is the model the result reports,
\* whatever the length of the chunk embedded (the dimension of a vector is
\* that of the model that made it).
C24_ModelFixedForRun ==
    \A s \in Sessions :
        frame[s].selected_model # "" =>
            LET f     == frame[s]
                model == _get_embedding_model(Len(Chars[TextOf(s)]))
            IN  /\ f.selected_model = model
                /\ pc[s] = "insert" => f.embedding_vector = Dimensions(model)
                /\ \A r \in RowsOfRun(s) : r.embedding = Dimensions(model)
                /\ f.ret.kind = "result" => f.ret.embedding_model = model

\* a result for the document longer than LARGE_DOCUMENT_THRESHOLD, whose
\* chunks are all shorter than the threshold: the large model made the rows
C24_Witness ==
    \E s \in Sessions :
        /\ frame[s].ret.kind = "result"
        /\ frame[s].ret.embedding_model = "text-embedding-3-large"
        /\ Cardinality(StoredFor(s)) >= 2
        /\ \A r \in StoredFor(s) :
               /\ r.embedding = 3072
               /\ _get_embedding_model(Len(StrOf(r.chunk_text)))
                      = "text-embedding-3-small"

\* C25: index_document(d), whether it succeeds or fails, touches no chunk of
\* another document and no Document row, also when runs for different
\* documents interleave: a step never changes the documents table; the rows
\* a session has flushed as inserted or deleted belong to the document of
\* its run; and the rows stored for a document change only in the commit of
\* a run for that document.
C25_OtherDocumentsUntouched ==
    [][/\ documents' = documents
       /\ \A s \in Sessions :
              /\ \A r \in session'[s].tx_inserted :
                     r.document_id = frame'[s].document_id
              /\ \A r \in document_chunks :
                     r.id \in session'[s].tx_deleted =>
                         r.document_id = frame'[s].document_id
       /\ \A d \in DocumentIds :
              {r \in document_chunks' : r.document_id = d}
                    # {r \in document_chunks : r.document_id = d} =>
                  \E s \in Sessions :
                      /\ frame[s].document_id = d
                      /\ pc[s] = "commit"]_vars

\* a run for one document returned its result while an earlier run for
\* another document was still inserting
C25_Witness ==
    \E s, t \in Sessions :
        /\ frame[s].document_id # frame[t].document_id
        /\ frame[t].run # 0
        /\ frame[t].run < frame[s].run
        /\ frame[s].ret.kind = "result"
        /\ StoredFor(s) # {}
        /\ pc[t] = "insert"
        /\ session[t].tx_inserted # {}

\* the chunk c has a character that is not whitespace and neither starts nor
\* ends with whitespace
Trimmed(c) ==
    /\ c # <<>>
    /\ c[1] \notin Whitespace
    /\ c[Len(c)] \notin Whitespace

\* C26 as stated: every chunk the chunker emits is trimmed and not blank,
\* for inputs of any length, those no longer than max_chars included.
C26_Original ==
    \A k \in 1..Len(chunks) : Trimmed(chunks[k])

\* C26, amended: every chunk emitted for an input longer than max_chars is
\* trimmed and not blank (and is what str.strip() leaves of a span); an input
\* no longer than max_chars is returned whole as the one chunk, untrimmed.
C26_LoopChunksTrimmed ==
    /\ Len(text) > max_chars =>
           /\ \A k \in 1..Len(chunks) : Trimmed(chunks[k])
           /\ \A k \in 1..Len(chunks) :
                  \E j \in 1..Len(spans) : chunks[k] = Strip(SpanText(j))
    /\ (cpc = "done" /\ text # <<>> /\ Len(text) <= max_chars) =>
           chunks = <<text>>

\* the loop emitted a chunk for a span that starts or ends with whitespace
C26_Witness ==
    /\ cpc = "done"
    /\ Len(text) > max_chars
    /\ \E j \in 1..Len(spans) :
           /\ Strip(SpanText(j)) # <<>>
           /\ Strip(SpanText(j)) # SpanText(j)
           /\ \E k \in 1..Len(chunks) : chunks[k] = Strip(SpanText(j))

\* every embedding call of session s's run was made and failed
AllEmbeddingsFailed(s) ==
    /\ frame[s].chunks # <<>>
    /\ hist[s].embed_failed = 1..Len(frame[s].chunks)

\* C27: a run all of whose chunk embeddings fail still commits and returns a
\* result with chunks_indexed = 0: unless the database fails it does not
\* raise, the rows a previous run stored for the document are deleted, and
\* the document has no row afterwards.
C27_AllEmbeddingsFail ==
    \A s \in Sessions :
        (AllEmbeddingsFailed(s) /\ Ended(s)) =>
            \/ /\ frame[s].ret.kind = "result"
               /\ frame[s].ret.chunks_indexed = 0
               /\ frame[s].ret.total_chunks = Len(frame[s].chunks)
               /\ hist[s].committed
               /\ StoredFor(s) = {}
            \/ /\ frame[s].ret.kind = "raise"
               /\ hist[s].db_fault

\* a run whose embeddings all failed returned, and emptied a document that a
\* previous run had indexed
C27_Witness ==
    \E s \in Sessions :
        /\ AllEmbeddingsFailed(s)
        /\ Len(frame[s].chunks) >= 2
        /\ frame[s].ret.kind = "result"
        /\ hist[s].before # {}
        /\ StoredFor(s) = {}

\* the batch request of session s returned a list without an error record
ReturnedNoError(s) ==
    /\ BatchEnded(s)
    /\ outcome[s].kind = "list"
    /\ \A n \in 1..Len(outcome[s].results) :
           outcome[s].results[n].kind # "error"

\* C28 as stated: after reindex_all_unindexed returned a list in which no
\* outcome carries an error, get_unindexed_documents returns no document.
C28_Original ==
    \A s \in Sessions :
        ReturnedNoError(s) => get_unindexed_documents(document_chunks) = {}

\* C28, amended: after reindex_all_unindexed returned a list in which no
\* outcome carries an error and every outcome reports chunks_indexed >= 1,
\* no document with a text is left without a chunk and
\* get_unindexed_documents returns no document.
C28_CatchUpComplete ==
    \A s \in Sessions :
        (/\ ReturnedNoError(s)
         /\ \A n \in 1..Len(outcome[s].results) :
                outcome[s].results[n].chunks_indexed >= 1) =>
            /\ TextButNoChunk = {}
            /\ get_unindexed_documents(document_chunks) = {}

\* a batch indexed two documents, each with at least one chunk stored
C28_Witness ==
    \E s \in Sessions :
        /\ ReturnedNoError(s)
        /\ Len(outcome[s].results) >= 2
        /\ \A n \in 1..Len(outcome[s].results) :
               outcome[s].results[n].chunks_indexed >= 1
        /\ TextButNoChunk = {}

\* C29 as stated: every span after the first ends beyond the end of the span
\* before it, so no chunk is made only of characters of the chunk before it,
\* and no span follows one that has reached the end of the text.
C29_Original ==
    \A k \in 1..(Len(spans) - 1) :
        /\ spans[k + 1][2] > spans[k][2]
        /\ spans[k][2] < Len(text)

\* C29, amended: every span after the first starts after the start of the
\* span before it and ends at or after its end (start_{i+1} > start_i,
\* end_{i+1} >= end_i); where the two ends lie on the same delimiter, or both
\* at or past the end of the text, the later span holds only characters of
\* the earlier one.
C29_EndsNeverDecrease ==
    \A k \in 1..(Len(spans) - 1) :
        /\ spans[k + 1][1] > spans[k][1]
        /\ spans[k + 1][2] >= spans[k][2]
        /\ (spans[k + 1][2] = spans[k][2] \/ spans[k][2] >= Len(text)) =>
               /\ Len(SpanText(k + 1)) < Len(SpanText(k))
               /\ SpanText(k + 1) =
                      SubSeq(SpanText(k),
                             Len(SpanText(k)) - Len(SpanText(k + 1)) + 1,
                             Len(SpanText(k)))

\* a trailing chunk was emitted after a span that had reached the end of the
\* text, made of characters of the chunk before it
C29_Witness ==
    /\ cpc = "done"
    /\ Len(spans) >= 2
    /\ Len(chunks) = Len(spans)
    /\ spans[Len(spans) - 1][2] >= Len(text)
    /\ chunks[Len(chunks)] = Strip(SpanText(Len(spans)))

\* ceil(a / b) for b > 0
CeilDiv(a, b) == (a + b - 1) \div b

\* C30 as stated: for a text longer than max_chars the number of chunks is at
\* most ceil(L / (max_chars - overlap)) + 1.
C30_Original ==
    Len(text) > max_chars =>
        Len(chunks) <= CeilDiv(Len(text), max_chars - overlap) + 1

\* the start of the k-th iteration: that of the k-th span, or the current
\* start for the iteration that comes next
StartOf(k) == IF k <= Len(spans) THEN spans[k][1] ELSE start

\* C30, amended: for a text of length L > max_chars the loop emits at most
\* one chunk per iteration and at most L chunks; every iteration advances
\* the start by at least 1 and at most max_chars - overlap, by exactly
\* max_chars - overlap when its span is max_chars long, so that
\* ceil(L / (max_chars - overlap)) is a lower bound on the number of spans.
C30_AdvanceBounds ==
    Len(text) > max_chars =>
        /\ Len(chunks) <= Len(spans)
        /\ Len(spans) <= Len(text)
        /\ \A k \in 1..Len(spans) :
               LET advance == StartOf(k + 1) - StartOf(k)
               IN  /\ advance >= 1
                   /\ advance <= max_chars - overlap
                   /\ spans[k][2] - spans[k][1] = max_chars =>
                          advance = max_chars - overlap
        /\ cpc = "done" =>
               Len(spans) >= CeilDiv(Len(text), max_chars - overlap)

\* more chunks than ceil(L / (max_chars - overlap)) + 1 were emitted, after
\* a span cut at a delimiter close to its start gave a chunk and advanced the
\* start by one character only
C30_Witness ==
    /\ cpc = "done"
    /\ Len(text) > max_chars
    /\ Len(chunks) > CeilDiv(Len(text), max_chars - overlap) + 1
    /\ \E k \in 1..Len(spans) :
           /\ StartOf(k + 1) - StartOf(k) = 1
           /\ max_chars - overlap > 1
           /\ Strip(SpanText(k)) # <<>>

=============================================================================
